---------------------------- MODULE Spec2Model ----------------------------
(***************************************************************************)
(* Model of markdowntoword (src/markdowntoword.go): the scan loop of       *)
(* parseMarkdown, the key sanitising expressions it inlines, and           *)
(* processValue.                                                           *)
(*                                                                         *)
(* A Go string is modelled as a sequence of characters, each character a   *)
(* one-element TLA+ string ("a", " ", "\n").  The bullet glyph U+2022 that *)
(* processValue inserts is the single character Bullet.  `lines` is the    *)
(* result of strings.Split(markdown, "\n") at line 22.                     *)
(***************************************************************************)
EXTENDS Integers, Sequences, FiniteSets, TLC

VARIABLES
    lines,          \* line 22: the input, already split into lines
    i,              \* number of lines the range loop of line 30 has consumed
    pc,             \* "scan" | "done" | "panic" (scan) or the harness position
    data,           \* line 24: the Output Mapping
    currentPrefix,  \* line 25
    currentKey,     \* line 26
    currentValue,   \* line 27
    previousLine,   \* line 28
    arg,            \* argument of the pure function under test
    res,            \* results of applying the pure function
    replaceMap      \* line 126: the map handed to the document's ReplaceAll

vars == <<lines, i, pc, data, currentPrefix, currentKey, currentValue,
          previousLine, arg, res, replaceMap>>

-----------------------------------------------------------------------------
(* Bounds *)

MaxLines == 3       \* longest generated input, in lines
MaxStrLen == 3      \* longest generated argument of sanitizer harness
MaxValLen == 4      \* longest generated argument of the processValue harness

-----------------------------------------------------------------------------
(* Characters *)

Uppers == <<"A","B","C","D","E","F","G","H","I","J","K","L","M",
            "N","O","P","Q","R","S","T","U","V","W","X","Y","Z">>
Lowers == <<"a","b","c","d","e","f","g","h","i","j","k","l","m",
            "n","o","p","q","r","s","t","u","v","w","x","y","z">>
UpperSet == {Uppers[k] : k \in 1..26}
LowerSet == {Lowers[k] : k \in 1..26}
DigitSet == {"0","1","2","3","4","5","6","7","8","9"}
Bullet == "U+2022"
EmptyStr == << >>

\* unicode.IsSpace as used by strings.TrimSpace, on the characters modelled
IsSpace(c) == c \in {" ", "\t", "\n", "\r"}

ToLowerRune(c) ==
    IF c \in UpperSet THEN Lowers[CHOOSE k \in 1..26 : Uppers[k] = c] ELSE c

-----------------------------------------------------------------------------
(* package strings *)

ToLower(s) == [k \in 1..Len(s) |-> ToLowerRune(s[k])]

HasPrefix(s, p) == Len(s) >= Len(p) /\ SubSeq(s, 1, Len(p)) = p

TrimPrefix(s, p) == IF HasPrefix(s, p) THEN SubSeq(s, Len(p) + 1, Len(s)) ELSE s

RECURSIVE TrimLeftSpace(_)
TrimLeftSpace(s) ==
    IF s = EmptyStr \/ ~IsSpace(Head(s)) THEN s ELSE TrimLeftSpace(Tail(s))

RECURSIVE TrimRightSpace(_)
TrimRightSpace(s) ==
    IF s = EmptyStr \/ ~IsSpace(s[Len(s)]) THEN s
    ELSE TrimRightSpace(SubSeq(s, 1, Len(s) - 1))

TrimSpace(s) == TrimRightSpace(TrimLeftSpace(s))

\* strings.ReplaceAll(s, old, new) for a non-empty old
RECURSIVE ReplaceAll(_, _, _)
ReplaceAll(s, old, new) ==
    IF s = EmptyStr THEN EmptyStr
    ELSE IF HasPrefix(s, old)
         THEN new \o ReplaceAll(SubSeq(s, Len(old) + 1, Len(s)), old, new)
         ELSE <<Head(s)>> \o ReplaceAll(Tail(s), old, new)

\* strings.Replace(s, old, new, 1): the first occurrence only
RECURSIVE ReplaceFirst(_, _, _)
ReplaceFirst(s, old, new) ==
    IF s = EmptyStr THEN EmptyStr
    ELSE IF HasPrefix(s, old)
         THEN new \o SubSeq(s, Len(old) + 1, Len(s))
         ELSE <<Head(s)>> \o ReplaceFirst(Tail(s), old, new)

\* index of the first occurrence of character c in s, 0 when absent
RECURSIVE IndexRune(_, _)
IndexRune(s, c) ==
    IF s = EmptyStr THEN 0
    ELSE IF Head(s) = c THEN 1
    ELSE LET r == IndexRune(Tail(s), c) IN IF r = 0 THEN 0 ELSE r + 1

\* strings.Split(s, sep) for a one-character sep
RECURSIVE Split(_, _)
Split(s, sep) ==
    LET k == IndexRune(s, sep) IN
    IF k = 0 THEN <<s>>
    ELSE <<SubSeq(s, 1, k - 1)>> \o Split(SubSeq(s, k + 1, Len(s)), sep)

\* strings.SplitN(s, sep, 2) for a one-character sep
SplitN2(s, sep) ==
    LET k == IndexRune(s, sep) IN
    IF k = 0 THEN <<s>>
    ELSE <<SubSeq(s, 1, k - 1), SubSeq(s, k + 1, Len(s))>>

\* strings.Join(parts, sep)
RECURSIVE Join(_, _)
Join(parts, sep) ==
    IF Len(parts) = 0 THEN EmptyStr
    ELSE IF Len(parts) = 1 THEN parts[1]
    ELSE parts[1] \o sep \o Join(Tail(parts), sep)

-----------------------------------------------------------------------------
(* Key sanitising, as inlined in parseMarkdown *)

\* the value -1 by which the mapping function tells strings.Map to drop a rune
NoRune == "rune(-1)"

\* keyRune with a disallowed rune replaced by a hyphen instead of dropped
keyRuneHyphen(r) ==
    IF r = " " \/ r = "_" \/ r \in LowerSet \/ r \in UpperSet \/ r \in DigitSet
       \/ r = "-"
    THEN r ELSE "-"

\* lines 39-44 (and 67-72, 88-93): the mapping function handed to strings.Map
keyRune(r) ==
    IF r = " " \/ r = "_" \/ r \in LowerSet \/ r \in UpperSet \/ r \in DigitSet
       \/ r = "-"
    THEN r ELSE NoRune

\* strings.Map(keyRune, s): runes mapped to a negative value are dropped
RECURSIVE MapKeyRunes(_)
MapKeyRunes(s) ==
    IF s = EmptyStr THEN EmptyStr
    ELSE LET r == keyRune(Head(s)) IN
         IF r = NoRune THEN MapKeyRunes(Tail(s))
         ELSE <<r>> \o MapKeyRunes(Tail(s))

\* kebabTrimmed with the replacements swapped and spaces turned to underscores
kebabSwapped(key) ==
    ToLower(ReplaceAll(ReplaceAll(TrimSpace(key), <<"_">>, <<"-">>),
                       <<" ">>, <<"_">>))

\* line 48: trim, spaces and underscores to hyphens, lower-case
kebabTrimmed(key) ==
    ToLower(ReplaceAll(ReplaceAll(TrimSpace(key), <<" ">>, <<"-">>),
                       <<"_">>, <<"-">>))

\* line 73: spaces and underscores to hyphens (no trim)
kebabUntrimmed(key) ==
    ReplaceAll(ReplaceAll(key, <<" ">>, <<"-">>), <<"_">>, <<"-">>)

\* lines 52-54, 75-77: the Section Prefix is prepended when it is not empty
withPrefix(prefix, key) ==
    IF prefix # EmptyStr THEN prefix \o <<"-">> \o key ELSE key

\* lines 39-48: the sanitising of a heading's text
sanitizeHeading(heading) == kebabTrimmed(MapKeyRunes(ToLower(heading)))

\* lines 38-54: the key of a third-level heading
headingKey(line, prefix) ==
    LET heading == TrimPrefix(line, <<"#","#","#">>)
    IN  withPrefix(prefix, sanitizeHeading(heading))

\* lines 67-77: the key of a definition list item, from the previous line
definitionKey(prev, prefix) ==
    LET key == MapKeyRunes(ToLower(prev))
    IN  withPrefix(prefix, kebabUntrimmed(key))

\* lines 88-94: the Section Prefix of a second-level heading.  The value of
\* line 88 is overwritten at line 94, which starts again from `line`.
sectionPrefix(line) ==
    LET first == MapKeyRunes(ToLower(line))
        second == ToLower(ReplaceAll(ReplaceAll(
                      TrimSpace(TrimPrefix(line, <<"#","#">>)),
                      <<" ">>, <<"-">>), <<"_">>, <<"-">>))
    IN  second

-----------------------------------------------------------------------------
(* processValue, lines 142-152 *)

\* line 146: the condition under which an item is rewritten
isListItem(item) == HasPrefix(item, <<"-">>) \/ HasPrefix(item, <<"+">>)

\* indexOutOfRange with item[0] evaluated before the prefix test
indexUnguarded(item) == Len(item) < 1

\* line 147: item[0] is evaluated only under the condition of line 146; an
\* index into an empty string is a run-time panic
indexOutOfRange(item) == isListItem(item) /\ Len(item) < 1

\* bulletItem with every occurrence of the first byte replaced
bulletItemAll(item) == ReplaceAll(item, <<item[1]>>, <<Bullet>>)

\* line 147: the first occurrence of the item's first byte becomes the bullet
bulletItem(item) == ReplaceFirst(item, <<item[1]>>, <<Bullet>>)

processValue(value) ==
    LET listItems == Split(value, "\n")
        bulletPoints == [k \in 1..Len(listItems) |->
                            IF isListItem(listItems[k])
                            THEN bulletItem(listItems[k])
                            ELSE listItems[k]]
    IN  Join(bulletPoints, <<"\n">>)

processValuePanics(value) ==
    LET listItems == Split(value, "\n")
    IN  \E k \in 1..Len(listItems) : indexOutOfRange(listItems[k])

-----------------------------------------------------------------------------
(* The scan loop of parseMarkdown, lines 24-106, on a record of its locals *)

\* Put that keeps the value a key already has
PutIfAbsent(d, key, value) ==
    [k \in (DOMAIN d) \cup {key} |-> IF k \in DOMAIN d THEN d[k] ELSE value]

\* data[key] = value
Put(d, key, value) ==
    [k \in (DOMAIN d) \cup {key} |-> IF k = key THEN value ELSE d[k]]

EmptyMap == [k \in {} |-> EmptyStr]

\* lines 24-28
InitLocals ==
    [data |-> EmptyMap, currentPrefix |-> EmptyStr, currentKey |-> EmptyStr,
     currentValue |-> EmptyStr, previousLine |-> EmptyStr, panicked |-> FALSE]

\* flush without the test of lines 56, 82, 104 that a key is open
flushUnguarded(s) ==
    IF processValuePanics(s.currentValue)
    THEN [s EXCEPT !.panicked = TRUE]
    ELSE [s EXCEPT !.data = Put(s.data, s.currentKey,
                                TrimSpace(processValue(s.currentValue)))]

\* flush that skips an entry whose accumulated value is empty
flushNonEmpty(s) ==
    IF s.currentKey # EmptyStr /\ s.currentValue # EmptyStr
    THEN IF processValuePanics(s.currentValue)
         THEN [s EXCEPT !.panicked = TRUE]
         ELSE [s EXCEPT !.data = Put(s.data, s.currentKey,
                                     TrimSpace(processValue(s.currentValue)))]
    ELSE s

\* lines 56-58, 82-84, 104-106: commit the open entry, if any
flush(s) ==
    IF s.currentKey # EmptyStr
    THEN IF processValuePanics(s.currentValue)
         THEN [s EXCEPT !.panicked = TRUE]
         ELSE [s EXCEPT !.data = Put(s.data, s.currentKey,
                                     TrimSpace(processValue(s.currentValue)))]
    ELSE s

\* handleHeading3 with the new key assigned before the flush
handleHeading3AssignFirst(s, line) ==
    LET key == headingKey(line, s.currentPrefix)
        f == flush([s EXCEPT !.currentKey = key])
    IN  IF f.panicked THEN f
        ELSE [f EXCEPT !.currentKey = key, !.currentValue = EmptyStr]

\* lines 33-61: a third-level heading
handleHeading3(s, line) ==
    LET key == headingKey(line, s.currentPrefix)
        f == flush(s)
    IN  IF f.panicked THEN f
        ELSE [f EXCEPT !.currentKey = key, !.currentValue = EmptyStr]

\* handleDefinition falling through to the append of line 97
handleDefinitionAppend(s, line) ==
    LET parts == SplitN2(line, ":")
        u == IF Len(parts) = 2
             THEN [s EXCEPT !.data = Put(s.data,
                                definitionKey(s.previousLine, s.currentPrefix),
                                TrimSpace(parts[2]))]
             ELSE s
    IN  IF u.currentKey # EmptyStr
        THEN [u EXCEPT !.currentValue = u.currentValue \o line \o <<"\n">>]
        ELSE u

\* lines 62-79: a definition list item
handleDefinition(s, line) ==
    LET parts == SplitN2(line, ":") IN
    IF Len(parts) = 2
    THEN [s EXCEPT !.data = Put(s.data,
                                definitionKey(s.previousLine, s.currentPrefix),
                                TrimSpace(parts[2]))]
    ELSE s

\* handleHeading2 without the reset of the current key of line 85
handleHeading2KeepOpen(s, line) ==
    LET f == flush(s) IN
    IF f.panicked THEN f
    ELSE [f EXCEPT !.currentValue = EmptyStr,
                   !.currentPrefix = sectionPrefix(line)]

\* lines 80-94: a second-level heading
handleHeading2(s, line) ==
    LET f == flush(s) IN
    IF f.panicked THEN f
    ELSE [f EXCEPT !.currentKey = EmptyStr, !.currentValue = EmptyStr,
                   !.currentPrefix = sectionPrefix(line)]

\* handlePlain that does not accumulate blank lines
handlePlainSkipBlank(s, line) ==
    IF s.currentKey # EmptyStr /\ line # EmptyStr
    THEN [s EXCEPT !.currentValue = s.currentValue \o line \o <<"\n">>]
    ELSE s

\* handlePlain without the test that an entry is open
handlePlainAlways(s, line) ==
    [s EXCEPT !.currentValue = s.currentValue \o line \o <<"\n">>]

\* lines 95-98: any other line
handlePlain(s, line) ==
    IF s.currentKey # EmptyStr
    THEN [s EXCEPT !.currentValue = s.currentValue \o line \o <<"\n">>]
    ELSE s

\* lineKind with the level-2 marker tested before the level-3 marker
lineKindShortFirst(line) ==
    IF HasPrefix(line, <<"#","#">>) THEN "heading2"
    ELSE IF HasPrefix(line, <<":">>) THEN "definition"
    ELSE IF HasPrefix(line, <<"#","#","#">>) THEN "heading3"
    ELSE "plain"

\* the kind of a trimmed line: the order of the tests of lines 33, 62, 80
lineKind(line) ==
    IF HasPrefix(line, <<"#","#","#">>) THEN "heading3"
    ELSE IF HasPrefix(line, <<":">>) THEN "definition"
    ELSE IF HasPrefix(line, <<"#","#">>) THEN "heading2"
    ELSE "plain"

\* lines 31-100: one iteration of the loop on the raw line
step(s, raw) ==
    LET line == TrimSpace(raw)
        kind == lineKind(line)
        t == IF kind = "heading3" THEN handleHeading3(s, line)
             ELSE IF kind = "definition" THEN handleDefinition(s, line)
             ELSE IF kind = "heading2" THEN handleHeading2(s, line)
             ELSE handlePlain(s, line)
    IN  IF t.panicked THEN t ELSE [t EXCEPT !.previousLine = line]

-----------------------------------------------------------------------------
(* Inputs *)

\* the raw lines the generated inputs are made of
LineSet ==
    { <<>>,                                     \* ""
      <<":">>,                                  \* ":"
      <<":"," ","v">>,                          \* ": v"
      <<"#","#"," ","A","!">>,                  \* "## A!"
      <<"#","#">>,                              \* "##"
      <<"#","#","#"," ","b">>,                  \* "### b"
      <<"#","#","#"," ","B",","," ","c","!">>,  \* "### B, c!"
      <<"#","#","#">>,                          \* "###"
      <<"x">>,                                  \* "x"
      <<" ","-","y"," ">>,                      \* " -y "
      <<"N"," ","!">>,                          \* "N !"
      <<"+","z","_">>                          \* "+z_"
    }

\* '## Section One\n### Field A\nHello\n'
ExSection ==
    << <<"#","#"," ","S","e","c","t","i","o","n"," ","O","n","e">>,
       <<"#","#","#"," ","F","i","e","l","d"," ","A">>,
       <<"H","e","l","l","o">>,
       <<>> >>

\* '### First\nValue1\n### Second\nValue2\n'
ExTwoEntries ==
    << <<"#","#","#"," ","F","i","r","s","t">>,
       <<"V","a","l","u","e","1">>,
       <<"#","#","#"," ","S","e","c","o","n","d">>,
       <<"V","a","l","u","e","2">>,
       <<>> >>

\* '## intro\nLabel Name\n: some value'
ExDefinition ==
    << <<"#","#"," ","i","n","t","r","o">>,
       <<"L","a","b","e","l"," ","N","a","m","e">>,
       <<":"," ","s","o","m","e"," ","v","a","l","u","e">> >>

\* '### Field, A!'
ExPunctuation ==
    << <<"#","#","#"," ","F","i","e","l","d",","," ","A","!">> >>

\* '## Section: One!'
ExSectionPunct ==
    << <<"#","#"," ","S","e","c","t","i","o","n",":"," ","O","n","e","!">> >>

\* '### Field , A'
ExSpaceRun ==
    << <<"#","#","#"," ","F","i","e","l","d"," ",","," ","A">> >>

\* '### Field  A'
ExTwoSpaces ==
    << <<"#","#","#"," ","F","i","e","l","d"," "," ","A">> >>

\* '### Field\nValue\n## Next\nstray\n'
ExSectionFlush ==
    << <<"#","#","#"," ","F","i","e","l","d">>,
       <<"V","a","l","u","e">>,
       <<"#","#"," ","N","e","x","t">>,
       <<"s","t","r","a","y">>,
       <<>> >>

\* '### Notes\n- one\n\nTerm\n: def\n two '
ExOpenEntry ==
    << <<"#","#","#"," ","N","o","t","e","s">>,
       <<"-"," ","o","n","e">>,
       <<>>,
       <<"T","e","r","m">>,
       <<":"," ","d","e","f">>,
       <<" ","t","w","o"," ">> >>

ExampleInputs ==
    {ExSection, ExTwoEntries, ExDefinition, ExPunctuation, ExSectionPunct,
     ExSpaceRun, ExTwoSpaces, ExSectionFlush, ExOpenEntry}

\* strings.Split returns at least one line, also for an empty file
Inputs ==
    UNION {[1..n -> LineSet] : n \in 1..MaxLines} \cup ExampleInputs

-----------------------------------------------------------------------------
(* The scan as a state machine *)

Locals ==
    [data |-> data, currentPrefix |-> currentPrefix, currentKey |-> currentKey,
     currentValue |-> currentValue, previousLine |-> previousLine,
     panicked |-> FALSE]

Store(t) ==
    /\ data' = t.data
    /\ currentPrefix' = t.currentPrefix
    /\ currentKey' = t.currentKey
    /\ currentValue' = t.currentValue
    /\ previousLine' = t.previousLine

Init ==
    /\ lines \in Inputs
    /\ i = 0
    /\ pc = "scan"
    /\ data = InitLocals.data
    /\ currentPrefix = InitLocals.currentPrefix
    /\ currentKey = InitLocals.currentKey
    /\ currentValue = InitLocals.currentValue
    /\ previousLine = InitLocals.previousLine
    /\ arg = EmptyStr
    /\ res = << >>
    /\ replaceMap = EmptyMap

\* lines 30-31: the loop has a next line, and its trimmed text is of `kind`
AtKind(kind) ==
    /\ pc = "scan"
    /\ i < Len(lines)
    /\ lineKind(TrimSpace(lines[i + 1])) = kind

\* lines 30-101: one iteration of the loop, on lines[i + 1]
Iteration ==
    LET t == step(Locals, lines[i + 1]) IN
      /\ Store(t)
      /\ pc' = IF t.panicked THEN "panic" ELSE "scan"
      /\ i' = IF t.panicked THEN i ELSE i + 1
      /\ UNCHANGED <<lines, arg, res, replaceMap>>

\* line 33
EntryHeading ==
    /\ AtKind("heading3")
    /\ Iteration

\* line 62
DefinitionEntry ==
    /\ AtKind("definition")
    /\ Iteration

\* line 80
SectionHeading ==
    /\ AtKind("heading2")
    /\ Iteration

\* line 95 and the implicit else
PlainText ==
    /\ AtKind("plain")
    /\ Iteration

\* lines 103-114: the flush after the loop, and the return
FinalFlush ==
    /\ pc = "scan"
    /\ i = Len(lines)
    /\ LET t == flush(Locals) IN
         /\ Store(t)
         /\ pc' = IF t.panicked THEN "panic" ELSE "done"
    /\ UNCHANGED <<lines, i, arg, res, replaceMap>>

Next ==
    \/ EntryHeading
    \/ DefinitionEntry
    \/ SectionHeading
    \/ PlainText
    \/ FinalFlush

Spec == Init /\ [][Next]_vars

-----------------------------------------------------------------------------
(* Harnesses applying the pure functions to generated arguments *)

StringsUpTo(alphabet, n) == UNION {[1..k -> alphabet] : k \in 0..n}

IdleScan ==
    /\ lines = <<EmptyStr>>
    /\ i = 0
    /\ data = InitLocals.data
    /\ currentPrefix = InitLocals.currentPrefix
    /\ currentKey = InitLocals.currentKey
    /\ currentValue = InitLocals.currentValue
    /\ previousLine = InitLocals.previousLine
    /\ replaceMap = EmptyMap

scanVars ==
    <<lines, i, data, currentPrefix, currentKey, currentValue, previousLine,
      replaceMap>>

\* letters of both cases, a digit, space, underscore, hyphen, punctuation
SanitizeAlphabet == {"a", "B", "1", " ", "_", "-", "!"}

InitSanitize ==
    /\ IdleScan
    /\ pc = "arg"
    /\ arg \in StringsUpTo(SanitizeAlphabet, MaxStrLen)
    /\ res = << >>

SanitizeOnce ==
    /\ pc = "arg"
    /\ res' = <<sanitizeHeading(arg)>>
    /\ pc' = "once"
    /\ UNCHANGED <<scanVars, arg>>

SanitizeAgain ==
    /\ pc = "once"
    /\ res' = Append(res, sanitizeHeading(res[1]))
    /\ pc' = "twice"
    /\ UNCHANGED <<scanVars, arg>>

NextSanitize == SanitizeOnce \/ SanitizeAgain

SpecSanitize == InitSanitize /\ [][NextSanitize]_vars

\* "- first\n+ second\n"
ExValue == <<"-"," ","f","i","r","s","t","\n","+"," ","s","e","c","o","n","d","\n">>

ValueAlphabet == {"-", "+", "a", " ", "\n"}

InitProcess ==
    /\ IdleScan
    /\ pc = "arg"
    /\ arg \in StringsUpTo(ValueAlphabet, MaxValLen) \cup {ExValue}
    /\ res = << >>

ProcessValueCall ==
    /\ pc = "arg"
    /\ IF processValuePanics(arg)
       THEN pc' = "panic" /\ res' = res
       ELSE pc' = "applied" /\ res' = <<processValue(arg)>>
    /\ UNCHANGED <<scanVars, arg>>

NextProcess == ProcessValueCall

SpecProcess == InitProcess /\ [][NextProcess]_vars

-----------------------------------------------------------------------------
(* main, lines 175-176: parseMarkdown, then replaceMustacheTags *)

\* the raw lines of the inputs of the whole program: values with the emphasis
\* delimiters "*" and "**"
MainLineSet ==
    { <<"#","#","#"," ","k">>,
      <<"*","a","*">>,
      <<"*","*","b","*","*"," ","c">>,
      <<":"," ","*","v">>,
      <<"#","#"," ","s">>,
      <<"x">> }

MainInputs == UNION {[1..n -> MainLineSet] : n \in 1..MaxLines}

InitMain ==
    /\ lines \in MainInputs
    /\ i = 0
    /\ pc = "scan"
    /\ data = InitLocals.data
    /\ currentPrefix = InitLocals.currentPrefix
    /\ currentKey = InitLocals.currentKey
    /\ currentValue = InitLocals.currentValue
    /\ previousLine = InitLocals.previousLine
    /\ arg = EmptyStr
    /\ res = << >>
    /\ replaceMap = EmptyMap

\* lines 126-131: the replacement map is a copy of data, handed to ReplaceAll
ReplaceMustacheTags ==
    /\ pc = "done"
    /\ replaceMap' = [key \in DOMAIN data |-> data[key]]
    /\ pc' = "replaced"
    /\ UNCHANGED <<lines, i, data, currentPrefix, currentKey, currentValue,
                   previousLine, arg, res>>

\* lines 121-124: the template cannot be opened
DocxOpenFails ==
    /\ pc = "done"
    /\ pc' = "panic"
    /\ UNCHANGED <<lines, i, data, currentPrefix, currentKey, currentValue,
                   previousLine, arg, res, replaceMap>>

NextMain == Next \/ ReplaceMustacheTags \/ DocxOpenFails

SpecMain == InitMain /\ [][NextMain]_vars

-----------------------------------------------------------------------------
(* Notions the claims are stated with *)

\* the locals after the first n lines of ls have been processed
RECURSIVE scanTo(_, _)
scanTo(ls, n) == IF n = 0 THEN InitLocals ELSE step(scanTo(ls, n - 1), ls[n])

\* the trimmed line the loop is about to process, and the one it has just
\* processed
NextLine == TrimSpace(lines[i + 1])
LastLine == TrimSpace(lines[i])

After(kind) == pc = "scan" /\ i >= 1 /\ lineKind(LastLine) = kind

\* the locals before the line that has just been processed
Before == scanTo(lines, i - 1)

KeyAlphabet == LowerSet \cup DigitSet \cup {"-"}

\* the keys whose mapping differs between two mappings
Written(d, e) ==
    {k \in DOMAIN e : k \notin DOMAIN d \/ d[k] # e[k]}

\* the text of a heading line, its marker stripped
SectionText(line) == TrimPrefix(line, <<"#","#">>)
EntryText(line) == TrimPrefix(line, <<"#","#","#">>)

-----------------------------------------------------------------------------
(* C1 *)

\* C1: every key of the Output Mapping consists only of lower-case letters,
\* digits and hyphens, the Section Prefix part included, and every key written
\* while a non-empty Section Prefix P was active starts with P and a hyphen.
C1_KeysSanitizedAndPrefixed ==
    /\ \A k \in DOMAIN data : \A n \in 1..Len(k) : k[n] \in KeyAlphabet
    /\ \A n \in 1..i :
         LET s == scanTo(lines, n - 1)
             t == scanTo(lines, n)
         IN  s.currentPrefix # EmptyStr =>
               \A k \in Written(s.data, t.data) :
                   HasPrefix(k, s.currentPrefix \o <<"-">>)

\* the second half of C1 alone, which the code keeps
C1_PrefixedOnly ==
    \A n \in 1..i :
       LET s == scanTo(lines, n - 1)
           t == scanTo(lines, n)
       IN  s.currentPrefix # EmptyStr =>
             \A k \in Written(s.data, t.data) :
                 HasPrefix(k, s.currentPrefix \o <<"-">>)

-----------------------------------------------------------------------------
(* C2 *)

\* C2: a line that is exactly ":" causes no write to the Output Mapping and no
\* error, whatever the scanner state it is met in.
C2_BareColonWritesNothing ==
    [][(pc = "scan" /\ i < Len(lines) /\ NextLine = <<":">>)
         => (data' = data /\ pc' # "panic")]_vars

-----------------------------------------------------------------------------
(* C3 *)

\* an input made of a Section-Heading, an Entry-Heading, then plain lines only
SectionEntryPlain(ls) ==
    /\ Len(ls) >= 2
    /\ lineKind(TrimSpace(ls[1])) = "heading2"
    /\ lineKind(TrimSpace(ls[2])) = "heading3"
    /\ \A n \in 3..Len(ls) : lineKind(TrimSpace(ls[n])) = "plain"

\* the plain lines from line n on, each followed by a newline
RECURSIVE PlainBody(_, _)
PlainBody(ls, n) ==
    IF n > Len(ls) THEN EmptyStr
    ELSE TrimSpace(ls[n]) \o <<"\n">> \o PlainBody(ls, n + 1)

\* C3: for an input Section-Heading S, Entry-Heading E, plain lines (S and E
\* with text that does not sanitize to nothing), the final
\* mapping maps kebab(sanitize(S)) + "-" + kebab(sanitize(E)) to
\* trim(processValue(the plain lines each followed by a newline)); the input
\* "## Section One\n### Field A\nHello\n" yields {"section-one-field-a": "Hello"}.
C3_SectionEntryResult ==
    /\ (pc = "done" /\ SectionEntryPlain(lines)
          /\ sanitizeHeading(SectionText(TrimSpace(lines[1]))) # EmptyStr
          /\ sanitizeHeading(EntryText(TrimSpace(lines[2]))) # EmptyStr) =>
          LET key == sanitizeHeading(SectionText(TrimSpace(lines[1])))
                     \o <<"-">> \o
                     sanitizeHeading(EntryText(TrimSpace(lines[2])))
          IN  /\ key \in DOMAIN data
              /\ data[key] = TrimSpace(processValue(PlainBody(lines, 3)))
    /\ (pc = "done" /\ lines = ExSection) =>
          data = (<<"s","e","c","t","i","o","n","-","o","n","e","-","f","i","e","l","d","-","a">> :> <<"H","e","l","l","o">>)

-----------------------------------------------------------------------------
(* C4 *)

\* C4: when an Entry-Heading is processed while an entry with non-empty key K
\* is open, the accumulated value is written under K and under no other key,
\* then the current key becomes the heading's key and the accumulated value
\* is empty; "### First\nValue1\n### Second\nValue2\n" yields
\* {"first": "Value1", "second": "Value2"}.
C4_FlushBeforeAssign ==
    /\ [][(AtKind("heading3") /\ currentKey # EmptyStr) =>
            /\ currentKey \in DOMAIN data'
            /\ data'[currentKey] = TrimSpace(processValue(currentValue))
            /\ \A k \in (DOMAIN data') \ {currentKey} :
                   k \in DOMAIN data /\ data'[k] = data[k]
            /\ currentKey' = headingKey(NextLine, currentPrefix)
            /\ currentValue' = EmptyStr]_vars
    /\ [](pc = "done" /\ lines = ExTwoEntries =>
            data = (<<"f","i","r","s","t">> :> <<"V","a","l","u","e","1">> @@ <<"s","e","c","o","n","d">> :> <<"V","a","l","u","e","2">>))

\* an Entry-Heading has just replaced an open entry that had a value, by an
\* entry of another key
C4_Witness ==
    /\ After("heading3")
    /\ Before.currentKey # EmptyStr
    /\ Before.currentValue # EmptyStr
    /\ currentKey # EmptyStr
    /\ currentKey # Before.currentKey
    /\ data[Before.currentKey] # EmptyStr

-----------------------------------------------------------------------------
(* C5 *)

\* C5: a Definition-Entry line ": V" whose preceding line is L, met under
\* Section Prefix P, makes the mapping map P + "-" + kebab(sanitize(L)) (or
\* kebab(sanitize(L)) when P is empty) to trim(V).
C5_DefinitionKeyAndValue ==
    [][(AtKind("definition") /\ i >= 1) =>
         LET label == sanitizeHeading(TrimSpace(lines[i]))
             key == IF currentPrefix = EmptyStr THEN label
                    ELSE currentPrefix \o <<"-">> \o label
             V == SubSeq(NextLine, 2, Len(NextLine))
         IN  /\ key \in DOMAIN data'
             /\ data'[key] = TrimSpace(V)]_vars

-----------------------------------------------------------------------------
(* C6 *)

\* the character at position k starts a line of the value
StartsLine(s, k) == k = 1 \/ s[k - 1] = "\n"

\* C6: processValue replaces the first character of every line that starts
\* with "-" or "+" by the bullet and changes nothing else, keeping the number
\* and order of lines; "- first\n+ second\n" becomes the same text with both
\* markers replaced by the bullet.
C6_ProcessValueBullets ==
    pc = "applied" =>
      /\ Len(res[1]) = Len(arg)
      /\ \A k \in 1..Len(arg) :
            res[1][k] = IF arg[k] \in {"-", "+"} /\ StartsLine(arg, k)
                        THEN Bullet ELSE arg[k]
      /\ arg = ExValue =>
            res[1] = <<Bullet>> \o <<" ","f","i","r","s","t","\n">> \o <<Bullet>>
                     \o <<" ","s","e","c","o","n","d","\n">>

\* a value with a marker at a line start and the same marker later in the line
C6_Witness ==
    /\ pc = "applied"
    /\ \E k \in 1..Len(arg) :
          /\ arg[k] \in {"-", "+"}
          /\ StartsLine(arg, k)
          /\ k < Len(arg)
          /\ arg[k + 1] = arg[k]
    /\ \E k \in 1..Len(arg) : arg[k] = "\n"

-----------------------------------------------------------------------------
(* C7 *)

\* C7: sanitizing an already-sanitized key yields the same key.
C7_SanitizeIdempotent ==
    pc = "twice" => res[2] = res[1]

\* an argument the sanitizer changes in all its steps: an upper-case letter,
\* punctuation, a space or underscore to rewrite
C7_Witness ==
    /\ pc = "twice"
    /\ \E k \in 1..Len(arg) : arg[k] = "B"
    /\ \E k \in 1..Len(arg) : arg[k] = "!"
    /\ \E k \in 1..Len(arg) : arg[k] \in {" ", "_"}
    /\ res[1] # arg
    /\ res[1] # EmptyStr

-----------------------------------------------------------------------------
(* C8 *)

KeptRune(c) == c \in LowerSet \cup DigitSet \cup {" ", "_", "-"}

Hyphenated(s) ==
    [k \in 1..Len(s) |-> IF s[k] \in {" ", "_"} THEN "-" ELSE s[k]]

\* C8: the key an Entry-Heading opens, no Section Prefix being active, is the
\* heading's text lower-cased, with every character other than letters,
\* digits, spaces, underscores and hyphens deleted, trimmed and hyphenated;
\* "### Field, A!" opens the entry "field-a".
C8_PunctuationDeleted ==
    /\ (After("heading3") /\ currentPrefix = EmptyStr) =>
          currentKey =
            Hyphenated(TrimSpace(SelectSeq(ToLower(EntryText(LastLine)),
                                           KeptRune)))
    /\ (lines = ExPunctuation /\ i = 1) => currentKey = <<"f","i","e","l","d","-","a">>

\* an Entry-Heading with punctuation in its text has opened an entry
C8_Witness ==
    /\ After("heading3")
    /\ currentPrefix = EmptyStr
    /\ \E k \in 1..Len(LastLine) : LastLine[k] \in {",", "!"}
    /\ currentKey # EmptyStr

-----------------------------------------------------------------------------
(* C9 *)

\* the guard of some action of the scan holds
CanStep ==
    \/ \E kind \in {"heading3", "definition", "heading2", "plain"} : AtKind(kind)
    \/ (pc = "scan" /\ i = Len(lines))

\* C9: every scan processes each line once, in order, reaches its final flush
\* and returns, and never panics: a scan that has not returned can take a
\* step, every step of the loop consumes exactly the next line, the step after
\* the last line returns, and the scan returns only after the last line (so
\* Len(lines) - i, then the return, bound the number of steps).
C9_ScanTerminates ==
    /\ [](pc # "panic")
    /\ [](pc = "done" \/ CanStep)
    /\ [](i \in 0..Len(lines) /\ (pc = "done" => i = Len(lines)))
    /\ [][(pc = "scan" /\ i < Len(lines)) =>
            /\ i' = i + 1
            /\ pc' = "scan"
            /\ previousLine' = TrimSpace(lines[i + 1])
            /\ lines' = lines]_vars
    /\ [][(pc = "scan" /\ i = Len(lines)) =>
            (pc' = "done" /\ i' = i /\ lines' = lines)]_vars

\* a scan that flushed in the loop and after it has returned
C9_Witness ==
    /\ pc = "done"
    /\ i = Len(lines)
    /\ Len(lines) >= 3
    /\ Cardinality(DOMAIN data) >= 2
    /\ currentKey # EmptyStr

-----------------------------------------------------------------------------
(* C10 *)

\* C10: a Plain-Text line met while the current key is empty changes neither
\* the Output Mapping nor the accumulated value; an input without any marker
\* line, the empty input included, produces the empty mapping.
C10_PlainOutsideEntryDiscarded ==
    /\ [][(AtKind("plain") /\ currentKey = EmptyStr) =>
            (data' = data /\ currentValue' = currentValue)]_vars
    /\ [](pc = "done"
            /\ (\A n \in 1..Len(lines) : lineKind(TrimSpace(lines[n])) = "plain")
          => data = EmptyMap)

\* a scan of plain lines only, some of them not blank, has returned
C10_Witness ==
    /\ pc = "done"
    /\ Len(lines) >= 2
    /\ \A n \in 1..Len(lines) : lineKind(TrimSpace(lines[n])) = "plain"
    /\ \E n \in 1..Len(lines) : TrimSpace(lines[n]) # EmptyStr
    /\ data = EmptyMap

-----------------------------------------------------------------------------
(* C11 *)

HasStar(s) == \E k \in 1..Len(s) : s[k] = "*"

\* C11: every value handed to the document's ReplaceAll, one for every key of
\* the Output Mapping, holds no "*" character.
C11_NoStarInReplaceMap ==
    pc = "replaced" =>
      /\ DOMAIN replaceMap = DOMAIN data
      /\ \A key \in DOMAIN replaceMap : ~HasStar(replaceMap[key])

-----------------------------------------------------------------------------
(* C12 *)

\* the write (key, value), if any, that the code performs on a line of the
\* given kind met with locals s; "end" is the flush after the last line
WriteOf(s, kind, line) ==
    IF kind \in {"heading3", "heading2", "end"}
    THEN IF s.currentKey # EmptyStr
         THEN {<<s.currentKey, TrimSpace(processValue(s.currentValue))>>}
         ELSE {}
    ELSE IF kind = "definition"
    THEN {<<definitionKey(s.previousLine, s.currentPrefix),
            TrimSpace(SubSeq(line, 2, Len(line)))>>}
    ELSE {}

\* the write of the n-th step of the scan of ls; step Len(ls) + 1 is the end
WriteAt(ls, n) ==
    IF n = Len(ls) + 1 THEN WriteOf(scanTo(ls, Len(ls)), "end", EmptyStr)
    ELSE WriteOf(scanTo(ls, n - 1), lineKind(TrimSpace(ls[n])),
                 TrimSpace(ls[n]))

\* the steps of the scan of ls that write key k
WritersOf(ls, k) ==
    {n \in 1..(Len(ls) + 1) : \E w \in WriteAt(ls, n) : w[1] = k}

Latest(S) == CHOOSE n \in S : \A m \in S : m <= n

\* C12: the final mapping holds, for every key written during the scan, the
\* value of the write that happened last in scan order, an entry's write
\* happening at the line that flushes it; there is no duplicate-key error.
C12_LastWriteWins ==
    pc = "done" =>
      /\ DOMAIN data =
            {w[1] : w \in UNION {WriteAt(lines, n) : n \in 1..(Len(lines) + 1)}}
      /\ \A k \in DOMAIN data :
            <<k, data[k]>> \in WriteAt(lines, Latest(WritersOf(lines, k)))

\* a key written twice with different values, the first time by a
\* Definition-Entry met after the Entry-Heading whose flush writes it last
C12_Witness ==
    /\ pc = "done"
    /\ \E k \in (DOMAIN data) \ {EmptyStr} :
          \E n \in WritersOf(lines, k) :
             /\ n < Latest(WritersOf(lines, k))
             /\ \/ Latest(WritersOf(lines, k)) = Len(lines) + 1
                \/ lineKind(TrimSpace(lines[Latest(WritersOf(lines, k))]))
                      \in {"heading3", "heading2"}
             /\ lineKind(TrimSpace(lines[n])) = "definition"
             /\ <<k, data[k]>> \notin WriteAt(lines, n)
             /\ \E h \in 1..(n - 1) :
                   /\ lineKind(TrimSpace(lines[h])) = "heading3"
                   /\ scanTo(lines, h).currentKey = k

-----------------------------------------------------------------------------
(* C13 *)

\* C13: after a Section-Heading line the Section Prefix is
\* kebab(sanitize(the line's text, its level-2 marker stripped)); the line
\* "## Section: One!" gives the prefix "section-one".
C13_SectionPrefixSanitized ==
    /\ After("heading2") =>
          currentPrefix = sanitizeHeading(SectionText(LastLine))
    /\ (lines = ExSectionPunct /\ i = 1) =>
          currentPrefix = <<"s","e","c","t","i","o","n","-","o","n","e">>

-----------------------------------------------------------------------------
(* C14 *)

\* s with every run of spaces reduced to one space
RECURSIVE CollapseSpaces(_)
CollapseSpaces(s) ==
    IF Len(s) < 2 THEN s
    ELSE IF s[1] = " " /\ s[2] = " " THEN CollapseSpaces(Tail(s))
    ELSE <<s[1]>> \o CollapseSpaces(Tail(s))

\* C14: in the key of an Entry-Heading (no Section Prefix active), after the
\* deletion of disallowed characters and the trim, every run of spaces has
\* become a single hyphen and every underscore a hyphen; "### Field , A" and
\* "### Field  A" open the entry "field-a".
C14_SpaceRunOneHyphen ==
    /\ (After("heading3") /\ currentPrefix = EmptyStr) =>
          currentKey =
            Hyphenated(CollapseSpaces(TrimSpace(
                SelectSeq(ToLower(EntryText(LastLine)), KeptRune))))
    /\ (lines \in {ExSpaceRun, ExTwoSpaces} /\ i = 1) =>
          currentKey = <<"f","i","e","l","d","-","a">>

-----------------------------------------------------------------------------
(* C15 *)

\* C15: under the same Section Prefix, a Definition-Entry whose preceding
\* line is the text T is written under the key that an Entry-Heading with the
\* text T opens.
C15_DefinitionKeyIsHeadingKey ==
    (After("definition") /\ i >= 2) =>
       headingKey(<<"#","#","#">> \o Before.previousLine, currentPrefix)
          \in DOMAIN data

-----------------------------------------------------------------------------
(* C16 *)

KindAt(n) == lineKind(TrimSpace(lines[n]))

IsHeadingAt(n) == KindAt(n) \in {"heading3", "heading2"}

\* the last heading line among the first n lines, 0 when there is none
LastHeading(n) ==
    LET S == {h \in 1..n : IsHeadingAt(h)}
    IN  IF S = {} THEN 0 ELSE CHOOSE h \in S : \A m \in S : m <= h

\* C16: a Section-Heading writes the open entry (if any) under its own key
\* and nothing else, then leaves no entry open; while the last heading met is
\* a Section-Heading no plain line is accumulated, and the stray line of
\* "### Field\nValue\n## Next\nstray\n" is in no value of the final mapping.
C16_SectionFlushesAndCloses ==
    /\ [][AtKind("heading2") =>
            /\ IF currentKey # EmptyStr
               THEN /\ currentKey \in DOMAIN data'
                    /\ data'[currentKey] = TrimSpace(processValue(currentValue))
                    /\ \A k \in (DOMAIN data') \ {currentKey} :
                          k \in DOMAIN data /\ data'[k] = data[k]
               ELSE data' = data
            /\ currentKey' = EmptyStr
            /\ currentValue' = EmptyStr]_vars
    /\ []((LastHeading(i) >= 1 /\ KindAt(LastHeading(i)) = "heading2") =>
            (currentKey = EmptyStr /\ currentValue = EmptyStr))
    /\ []((pc = "done" /\ lines = ExSectionFlush) =>
            data = (<<"f","i","e","l","d">> :> <<"V","a","l","u","e">>))

\* a Section-Heading has just flushed and closed an entry that had a value
C16_Witness ==
    /\ After("heading2")
    /\ Before.currentKey # EmptyStr
    /\ Before.currentValue # EmptyStr
    /\ Before.currentKey \notin DOMAIN Before.data
    /\ data[Before.currentKey] # EmptyStr
    /\ currentKey = EmptyStr

-----------------------------------------------------------------------------
(* C17 *)

\* the n-th line is an Entry-Heading that opened an entry
Opened(n) == KindAt(n) = "heading3" /\ scanTo(lines, n).currentKey # EmptyStr

\* C17: the key of every entry that an Entry-Heading has opened is a key of
\* the mapping once the next heading has been processed, and at the latest
\* when the scan returns.
C17_OpenedEntryFlushed ==
    \A n \in 1..i :
       (Opened(n) /\ (pc = "done" \/ \E m \in (n + 1)..i : IsHeadingAt(m)))
          => scanTo(lines, n).currentKey \in DOMAIN data

\* the scan has returned after an Entry-Heading on its last line: the entry
\* has no plain line, and is in the mapping with the empty value
C17_Witness ==
    /\ pc = "done"
    /\ Opened(Len(lines))
    /\ currentKey \in DOMAIN data
    /\ data[currentKey] = EmptyStr

-----------------------------------------------------------------------------
(* C18 *)

\* C18: a Definition-Entry line leaves the current key, the accumulated value
\* and the Section Prefix unchanged and changes the mapping at the key derived
\* from the Previous Line only.
C18_DefinitionFrame ==
    [][AtKind("definition") =>
         /\ currentKey' = currentKey
         /\ currentValue' = currentValue
         /\ currentPrefix' = currentPrefix
         /\ LET key == definitionKey(previousLine, currentPrefix) IN
              /\ DOMAIN data' = (DOMAIN data) \cup {key}
              /\ \A k \in (DOMAIN data') \ {key} : data'[k] = data[k]]_vars

\* a Definition-Entry has been processed while an entry with accumulated
\* lines was open and not yet written
C18_Witness ==
    /\ After("definition")
    /\ currentKey # EmptyStr
    /\ currentValue # EmptyStr
    /\ currentKey \notin DOMAIN data
    /\ data # Before.data

-----------------------------------------------------------------------------
(* C19 *)

Level3(line) == HasPrefix(line, <<"#","#","#">>)

Level2Only(line) == HasPrefix(line, <<"#","#">>) /\ ~Level3(line)

\* C19: the Section Prefix is empty until the first Section-Heading, changes
\* at no line other than a Section-Heading, and a line that begins with "###"
\* is handled as an Entry-Heading: it opens the entry of its key and leaves
\* the Section Prefix unchanged.
C19_PrefixChangesAtSectionOnly ==
    /\ []((\A n \in 1..i : ~Level2Only(TrimSpace(lines[n]))) =>
            currentPrefix = EmptyStr)
    /\ [][(pc = "scan" /\ i < Len(lines) /\ ~Level2Only(NextLine)) =>
            currentPrefix' = currentPrefix]_vars
    /\ [][(pc = "scan" /\ i < Len(lines) /\ Level3(NextLine)) =>
            /\ currentPrefix' = currentPrefix
            /\ currentKey' = headingKey(NextLine, currentPrefix)
            /\ currentValue' = EmptyStr]_vars

\* an Entry-Heading has been processed under a Section Prefix
C19_Witness ==
    /\ After("heading3")
    /\ currentPrefix # EmptyStr
    /\ HasPrefix(currentKey, currentPrefix \o <<"-">>)
    /\ Len(currentKey) > Len(currentPrefix) + 1

-----------------------------------------------------------------------------
(* C20 *)

\* the trimmed Plain-Text lines among lines m..n, each followed by a newline
RECURSIVE PlainSince(_, _)
PlainSince(m, n) ==
    IF m > n THEN EmptyStr
    ELSE (IF KindAt(m) = "plain" THEN TrimSpace(lines[m]) \o <<"\n">>
          ELSE EmptyStr) \o PlainSince(m + 1, n)

\* C20: while an entry is open its accumulated value is the concatenation, in
\* input order, of the trimmed Plain-Text lines met since the Entry-Heading
\* that opened it, each followed by a newline; a Plain-Text line changes
\* neither the mapping, the current key nor the Section Prefix.
C20_AccumulatedValue ==
    /\ []((pc = "scan" /\ currentKey # EmptyStr) =>
            /\ LastHeading(i) >= 1
            /\ KindAt(LastHeading(i)) = "heading3"
            /\ currentValue = PlainSince(LastHeading(i) + 1, i))
    /\ [][AtKind("plain") =>
            /\ data' = data
            /\ currentKey' = currentKey
            /\ currentPrefix' = currentPrefix]_vars

\* an open entry has met a blank line, a Definition-Entry and a line with
\* text since its Entry-Heading
C20_Witness ==
    /\ pc = "scan"
    /\ currentKey # EmptyStr
    /\ \E n \in (LastHeading(i) + 1)..i : TrimSpace(lines[n]) = EmptyStr
    /\ \E n \in (LastHeading(i) + 1)..i : KindAt(n) = "definition"
    /\ \E n \in (LastHeading(i) + 1)..i :
          KindAt(n) = "plain" /\ TrimSpace(lines[n]) # EmptyStr

-----------------------------------------------------------------------------
(* C21 *)

\* the trimmed text of the n-th line, empty before the first line
TrimmedLine(n) == IF n = 0 THEN EmptyStr ELSE TrimSpace(lines[n])

\* lines 28, 31, 100: during the scan the Previous Line is the trimmed text of
\* the line just processed, whatever its kind, and is empty before the first
PreviousLineIsLastLine ==
    pc = "scan" => previousLine = TrimmedLine(i)

\* C21: the Previous Line is the trimmed text of the immediately preceding
\* input line whatever its kind, and empty for the first line; the second of
\* two consecutive Definition-Entry lines is written under the sanitized text
\* of the first colon line (with the Section Prefix, when one is active).
C21_PreviousLineLabel ==
    /\ PreviousLineIsLastLine
    /\ (After("definition") /\ i >= 2 /\ KindAt(i - 1) = "definition") =>
          LET key == withPrefix(currentPrefix, sanitizeHeading(TrimmedLine(i - 1)))
          IN  /\ key \in DOMAIN data
              /\ data[key] = TrimSpace(SubSeq(LastLine, 2, Len(LastLine)))

-----------------------------------------------------------------------------
(* C22 *)

\* the n-th line is an Entry-Heading that set the current key to empty
OpenedNothing(n) ==
    KindAt(n) = "heading3" /\ scanTo(lines, n).currentKey = EmptyStr

\* C22: an Entry-Heading whose text sanitizes to nothing while the Section
\* Prefix is empty flushes the open entry and sets the current key to empty;
\* the plain lines after it are not accumulated; only a Definition-Entry whose
\* Previous Line sanitizes to nothing, met with an empty Section Prefix, puts
\* or changes the empty key of the mapping, so no flush writes it.
C22_EmptyKeyOpensNothing ==
    /\ [][(AtKind("heading3") /\ currentPrefix = EmptyStr
             /\ sanitizeHeading(TrimPrefix(NextLine, <<"#","#","#">>)) = EmptyStr) =>
            /\ currentKey' = EmptyStr
            /\ currentValue' = EmptyStr
            /\ IF currentKey # EmptyStr
               THEN /\ DOMAIN data' = (DOMAIN data) \cup {currentKey}
                    /\ data'[currentKey] = TrimSpace(processValue(currentValue))
                    /\ \A k \in (DOMAIN data) \ {currentKey} : data'[k] = data[k]
               ELSE data' = data]_vars
    /\ []((LastHeading(i) >= 1 /\ OpenedNothing(LastHeading(i))) =>
            (currentKey = EmptyStr /\ currentValue = EmptyStr))
    /\ [][(EmptyStr \in DOMAIN data'
             /\ (EmptyStr \notin DOMAIN data \/ data'[EmptyStr] # data[EmptyStr])) =>
            /\ AtKind("definition")
            /\ currentPrefix = EmptyStr
            /\ sanitizeHeading(previousLine) = EmptyStr]_vars
    /\ [][(~AtKind("definition") /\ EmptyStr \notin DOMAIN data) =>
            EmptyStr \notin DOMAIN data']_vars

\* a line with text has been met after an Entry-Heading that set the current
\* key to empty and flushed the entry open before it; the mapping has no
\* empty key
C22_Witness ==
    /\ After("plain")
    /\ i >= 3
    /\ LastLine # EmptyStr
    /\ OpenedNothing(i - 1)
    /\ scanTo(lines, i - 2).currentKey # EmptyStr
    /\ scanTo(lines, i - 2).currentKey \in DOMAIN data
    /\ currentKey = EmptyStr
    /\ currentValue = EmptyStr
    /\ EmptyStr \notin DOMAIN data

=============================================================================
